---------------------------- MODULE Spec2Model ----------------------------
(* canto-curses: the Screen's window tree and focus (screen.py) and the   *)
(* three threads of CantoCursesGui (gui.py): the command thread (run),    *)
(* the render thread (run_gui) and the Screen's input thread, with the    *)
(* tick and winch entry points called from outside.                       *)
EXTENDS Integers, Sequences, FiniteSets, TLC

(* ------------------------------ bounds ------------------------------ *)

\* Most Regions alive at once (tiled and floating together).
MaxRegions == 3
\* Keys the user types during one run.
MaxKeys == 2
\* Keys the user types during one run of the specifications with a single key.
FairKeys == 1
\* The tick stops decrementing the countdown once it is this far below zero.
TimerFloor == 1

(* ------------------------- program constants ------------------------ *)

\* gui.py:104  self.sync_timer = 1
SyncTimerInit == 1
\* gui.py:191  self.sync_timer = 5
SyncTimerReset == 5

(* ----------------------------- Regions ------------------------------ *)

\* A Region: an instance (id) of a window class with the options the config
\* gives it (<name>.float, <name>.align).  id 0 is Python's None.
None == 0
RegionIds == 1..MaxRegions

TiledAligns == {"top", "bottom", "neutral"}
FloatAligns == {"bottom-right"}
\* The alignments tried for a Region added later, tiled or floating.
AddAligns == {"top", "neutral", "bottom-right"}

\* The window class add_window_callback is handed for an error record
\* (gui.py:48); an info record's InfoBox (gui.py:46) is added the same way.
AddClasses == {"ErrorBox"}

Region(i, c, f, a) == [id |-> i, cls |-> c, flt |-> f, align |-> a]

\* The options a new Region of class c may be configured with.
AddKinds ==
    { [cls |-> c, flt |-> FALSE, align |-> a] :
          c \in AddClasses, a \in TiledAligns \cap AddAligns }
    \cup { [cls |-> c, flt |-> TRUE, align |-> a] :
          c \in AddClasses, a \in FloatAligns \cap AddAligns }

RECURSIVE Reverse(_)
Reverse(s) == IF s = <<>> THEN <<>> ELSE Append(Reverse(Tail(s)), Head(s))

SeqIds(s) == { s[i].id : i \in 1..Len(s) }

WithAlign(ws, a) == SelectSeq(ws, LAMBDA w : w.align = a)
WithoutId(ws, i) == SelectSeq(ws, LAMBDA w : w.id # i)

(* --------------------------- the Screen ----------------------------- *)
\* A screen value: [windows, floats, focused, input_box]; focused and
\* input_box hold a Region id or None.

\* fill_layout: the input box is the first tiled Region that is_input().
InputBoxOf(ws) ==
    LET ins == SelectSeq(ws, LAMBDA w : w.cls = "InputBox")
    IN  IF ins # <<>> THEN ins[1].id ELSE None

\* fill_layout, default layout: the middle row left + neutral + right.
Horizontal(ws) ==
    WithAlign(ws, "left") \o WithAlign(ws, "neutral") \o WithAlign(ws, "right")

\* _subw recurses into the middle row and takes _subw_layout_size of the
\* result: max() of an empty list raises when the row holds nothing.
SubwRaises(ws) == Horizontal(ws) = <<>>

\* The focus chain: tiled then floating, reversed.
FocusOrder(s) == Reverse(s.windows \o s.floats)

\* Python's seq[idx] for -len <= idx < len, on a 1-based sequence.
PyIndex(fo, idx) == IF idx >= 0 THEN fo[idx + 1] ELSE fo[Len(fo) + idx + 1]

\* _focus(idx)
Focus(s, idx) ==
    LET fo == FocusOrder(s)
        l  == Len(fo)
    IN  IF -1 * l < idx /\ idx < l
        THEN [s EXCEPT !.focused = PyIndex(fo, idx).id]
        ELSE s

\* subwindows(): [scr |-> the screen afterwards, raised |-> whether it raised].
\* The focus is dropped first; a raise in the tiled layout leaves it dropped.
Subwindows(s) ==
    LET s1 == [s EXCEPT !.focused = None, !.input_box = InputBoxOf(s.windows)]
    IN  IF SubwRaises(s.windows)
        THEN [scr |-> s1, raised |-> TRUE]
        ELSE [scr |-> Focus(s1, 0), raised |-> FALSE]

\* die_callback(window)
DieCallback(s, i) ==
    LET s1 == [s EXCEPT !.windows = WithoutId(s.windows, i),
                        !.floats  = WithoutId(s.floats, i)]
        r  == Subwindows(s1)
    IN  IF r.raised THEN r
        ELSE [scr |-> IF r.scr.focused = i THEN Focus(r.scr, 0) ELSE r.scr,
              raised |-> FALSE]

\* The id a newly constructed Region gets: the least one not alive.
FreshId(s) ==
    CHOOSE i \in RegionIds :
        /\ i \notin SeqIds(s.windows \o s.floats)
        /\ \A j \in RegionIds : j < i => j \in SeqIds(s.windows \o s.floats)

CanAdd(s) == Len(s.windows) + Len(s.floats) < MaxRegions

\* add_window_callback(cls), the new Region configured as kind k.
AddWindowCallback(s, k) ==
    LET ci == Region(FreshId(s), k.cls, k.flt, k.align)
        s1 == IF k.flt
              THEN [s EXCEPT !.floats = Append(s.floats, ci)]
              ELSE [s EXCEPT !.windows = Append(s.windows, ci)]
        r  == Subwindows(s1)
    IN  IF r.raised THEN r
        ELSE [scr |-> Focus(r.scr, 0), raised |-> FALSE]

\* _resize(): curses is set up again and the layout regenerated.
Resize(s) == Subwindows(s)


\* GraphicalLog._emit's test "window_type not in self.screen.window_types".
WindowTypes(s) == { (s.windows \o s.floats)[i].cls : i \in 1..Len(s.windows \o s.floats) }

(* ----------------------- the geometry: _subw ---------------------- *)
\* A layout is a sequence of units; a unit is a window (leaf = TRUE, with
\* its options mh, mw: <name>.maxheight, <name>.maxwidth, 0 when unset, and
\* rh, rw: what get_height, get_width answer) or a nested list (leaf =
\* FALSE, kids).  A rectangle is [id, top, left, height, width].

Leaf(i, mh, mw, rh, rw) ==
    [leaf |-> TRUE, id |-> i, mh |-> mh, mw |-> mw, rh |-> rh, rw |-> rw, kids |-> <<>>]

Nested(ks) ==
    [leaf |-> FALSE, id |-> None, mh |-> 0, mw |-> 0, rh |-> 0, rw |-> 0, kids |-> ks]

Min2(a, b) == IF a <= b THEN a ELSE b
Min3(a, b, c) == Min2(a, Min2(b, c))

SetMax(S) == CHOOSE x \in S : \A y \in S : y <= x

RECURSIVE SumTo(_, _)
\* sum(sizes[0:n])
SumTo(sz, n) == IF n = 0 THEN 0 ELSE sz[n] + SumTo(sz, n - 1)

\* _subw_size_height(ci, height)
SubwSizeHeight(ci, height) ==
    LET cfg_height == IF ci.mh = 0 THEN height ELSE ci.mh
    IN  Min3(height, cfg_height, ci.rh)

\* _subw_size_width(ci, width)
SubwSizeWidth(ci, width) ==
    LET cfg_width == IF ci.mw = 0 THEN width ELSE ci.mw
    IN  Min3(width, cfg_width, ci.rw)

\* _subw_init(ci, top, left, height, width): the pad is
\* curses.newpad(height + 1, width).
SubwInit(ci, top, left, height, width) ==
    [id |-> ci.id, top |-> top, left |-> left, height |-> height, width |-> width]

PadLines(rect) == rect.height + 1
PadCols(rect) == rect.width

\* _subw_layout_size(layout, dim) of a layout holding the windows of rects:
\* the largest pad.getmaxyx()[idx] - 1.  (It raises on an empty list.)
SubwLayoutSize(rects, dim) ==
    IF dim = "height" THEN SetMax({ PadLines(r) - 1 : r \in rects })
    ELSE SetMax({ PadCols(r) - 1 : r \in rects })

\* The space the windows of rects take along the axis of dim.
TrueSize(rects, dim) ==
    IF dim = "height" THEN SetMax({ r.height : r \in rects })
    ELSE SetMax({ r.width : r \in rects })

\* _subw, first loop: the immediates are sized in order.
RECURSIVE SubwImmediates(_, _, _, _, _, _, _)
SubwImmediates(layout, i, used, units, sizes, g, shares) ==
    IF i > Len(layout) THEN [sizes |-> sizes, used |-> used, shares |-> shares]
    ELSE IF ~layout[i].leaf
    THEN SubwImmediates(layout, i + 1, used, units, sizes, g, shares)
    ELSE LET share == IF g.orientation = "horizontal"
                      THEN (g.width - used) \div units
                      ELSE (g.height - used) \div units
             size  == IF g.orientation = "horizontal"
                      THEN SubwSizeWidth(layout[i], share)
                      ELSE SubwSizeHeight(layout[i], share)
         IN  SubwImmediates(layout, i + 1, used + size, units - 1,
                            [sizes EXCEPT ![i] = size], g,
                            [shares EXCEPT ![i] = share])

RECURSIVE Subw(_, _, _, _, _, _)
RECURSIVE SubwCmplx(_, _, _, _)

\* _subw, second loop: each nested list is laid out with the orientation
\* flipped and then measured.
SubwCmplx(layout, i, acc, g) ==
    IF i > Len(layout) \/ acc.raised THEN acc
    ELSE IF layout[i].leaf THEN SubwCmplx(layout, i + 1, acc, g)
    ELSE LET horiz  == g.orientation = "horizontal"
             offset == SumTo(acc.sizes, i - 1)
             available == IF horiz THEN (g.width - acc.used) \div acc.units
                          ELSE (g.height - acc.used) \div acc.units
             r == IF horiz
                  THEN Subw(layout[i].kids, g.top, g.left + offset, g.height,
                            available, "vertical")
                  ELSE Subw(layout[i].kids, g.top + offset, g.left, available,
                            g.width, "horizontal")
             dim == IF horiz THEN "width" ELSE "height"
         IN  IF r.raised \/ layout[i].kids = <<>>
             THEN [acc EXCEPT !.raised = TRUE,
                              !.rects = acc.rects \cup r.rects,
                              !.levels = acc.levels \cup r.levels]
             ELSE SubwCmplx(layout, i + 1,
                    [sizes  |-> [acc.sizes EXCEPT ![i] = SubwLayoutSize(r.rects, dim)],
                     taken  |-> [acc.taken EXCEPT ![i] = TrueSize(r.rects, dim)],
                     used   |-> acc.used + SubwLayoutSize(r.rects, dim),
                     units  |-> acc.units - 1,
                     rects  |-> acc.rects \cup r.rects,
                     levels |-> acc.levels \cup r.levels,
                     raised |-> FALSE], g)

\* _subw(layout, top, left, height, width, orientation):
\*   raised: it raised; sizes: its sizes list; rects: the windows set up;
\*   levels: for this level and every level below that ran to its end, the
\*   extent it was given, its layout, its sizes, the share each immediate
\*   was offered and the space each child's windows take.
Subw(layout, top, left, height, width, orientation) ==
    LET g == [top |-> top, left |-> left, height |-> height, width |-> width,
              orientation |-> orientation]
        zero == [i \in 1..Len(layout) |-> 0]
        imm == SubwImmediates(layout, 1, 0, Len(layout), zero, g, zero)
        ncmplx == Cardinality({ i \in 1..Len(layout) : ~layout[i].leaf })
        cx == SubwCmplx(layout, 1,
                [sizes |-> imm.sizes, taken |-> imm.sizes, used |-> imm.used,
                 units |-> ncmplx, rects |-> {}, levels |-> {}, raised |-> FALSE], g)
        own == { IF orientation = "horizontal"
                 THEN SubwInit(layout[i], top, left + SumTo(cx.sizes, i - 1),
                               height, cx.sizes[i])
                 ELSE SubwInit(layout[i], top + SumTo(cx.sizes, i - 1), left,
                               cx.sizes[i], width)
                 : i \in { j \in 1..Len(layout) : layout[j].leaf } }
        level == [orientation |-> orientation,
                  extent |-> IF orientation = "horizontal" THEN width ELSE height,
                  layout |-> layout, sizes |-> cx.sizes, shares |-> imm.shares,
                  taken |-> cx.taken]
    IN  IF cx.raised
        THEN [raised |-> TRUE, sizes |-> cx.sizes, rects |-> cx.rects,
              levels |-> cx.levels]
        ELSE [raised |-> FALSE, sizes |-> cx.sizes, rects |-> cx.rects \cup own,
              levels |-> cx.levels \cup {level}]

\* A Region with its geometry options, for the Screen's layout: a
\* [layout, height, width, windows, floats] record.
GRegion(i, c, a, mh, mw, rh, rw) ==
    [id |-> i, cls |-> c, align |-> a, mh |-> mh, mw |-> mw, rh |-> rh, rw |-> rw]

AsLeaf(w) == Leaf(w.id, w.mh, w.mw, w.rh, w.rw)

\* fill_layout's entry for one window: the taglist goes two lists deeper.
AsUnit(w) ==
    IF w.cls = "TagList" THEN Nested(<<Nested(<<AsLeaf(w)>>)>>) ELSE AsLeaf(w)

Units(ws) == [i \in 1..Len(ws) |-> AsUnit(ws[i])]

\* fill_layout(layout, windows)
FillLayout(layout, ws) ==
    IF layout = "hstack" THEN [i \in 1..Len(ws) |-> AsLeaf(ws[i])]
    ELSE IF layout = "vstack" THEN << Nested([i \in 1..Len(ws) |-> AsLeaf(ws[i])]) >>
    ELSE LET horizontal == Units(WithAlign(ws, "left")) \o Units(WithAlign(ws, "neutral"))
                               \o Units(WithAlign(ws, "right"))
         IN  Units(WithAlign(ws, "top")) \o << Nested(horizontal) >>
                 \o Units(WithAlign(ws, "bottom"))

\* align.startswith("bottom"), align.endswith("right")
StartsWithBottom(a) == a \in {"bottom", "bottom-left", "bottom-right"}
EndsWithRight(a) == a \in {"right", "top-right", "bottom-right"}

\* subwindows(), the float loop: one float's rectangle.
FloatRect(scr, f) ==
    LET height == SubwSizeHeight(f, scr.height)
        width  == SubwSizeWidth(f, scr.width)
        top    == IF StartsWithBottom(f.align) THEN scr.height - height ELSE 0
        left   == IF EndsWithRight(f.align) THEN scr.width - width ELSE 0
    IN  SubwInit(f, top, left, height, width)

\* subwindows(): the tiled layout, then the floats; a raise in the tiled
\* layout leaves the floats as they were.
SubwindowsGeom(scr) ==
    LET t == Subw(FillLayout(scr.layout, scr.windows), 0, 0, scr.height, scr.width,
                  "vertical")
    IN  IF t.raised THEN [raised |-> TRUE, rects |-> t.rects]
        ELSE [raised |-> FALSE,
              rects |-> t.rects \cup { FloatRect(scr, scr.floats[i]) :
                                         i \in 1..Len(scr.floats) }]

(* ----------------------------- commands ----------------------------- *)

\* One piece of a split command string.  "die" stands for any Region
\* command whose handler calls the die callback; "focus_bad" is focus with
\* an argument optint cannot parse; "noop" a piece no handler matches;
\* "pause" a Region command that pauses the interface, runs another program
\* and unpauses.
Cmd(o) == [op |-> o, idx |-> 0]
CmdFocus(i) == [op |-> "focus", idx |-> i]

\* What a key may resolve to (the bindings are configuration).
Batches ==
    { <<Cmd("quit")>>, <<Cmd("resize")>>, <<Cmd("command"), Cmd("resize")>>,
      <<Cmd("quit"), Cmd("die")>> }

\* What the user may enter at the prompt, split.
SubBatches == { <<Cmd("noop")>>, <<CmdFocus(-1)>>, <<Cmd("focus_bad"), Cmd("quit")>> }

(* ------------------------------ state ------------------------------- *)

VARIABLES
    screen,        \* Screen: [windows, floats, focused, input_box]
    last,          \* the latest window-tree operation and the focus before it
    needs_resize, needs_refresh, needs_redraw,   \* the shared variable store
    alive,         \* CantoCursesGui.alive
    do_gui,        \* CantoCursesGui.do_gui, the Event run_gui waits on
    sync_timer,    \* CantoCursesGui.sync_timer
    sync_lock,     \* who holds sync_lock for writing: "free", "run" or "gui"
    rpc,           \* where run() is
    cmds,          \* run(): the commands of the batch still to issue
    subcmds,       \* run(): the pieces of the prompt's string still to issue
    did,           \* what the command being executed has done to the screen
    gpc,           \* where run_gui() is
    passLog,       \* the steps the render pass in progress has performed
    glog,          \* the GraphicalLog handler is attached to the root logger
    curses_up,     \* the terminal is held (screen.exit() not yet called)
    ipc,           \* where input_thread() is
    keysLeft,      \* keys the user has yet to type
    user_queue,    \* keys put on the queue and not yet taken by get_key
    sub_edit,      \* Screen.sub_edit
    input_done,    \* Screen.input_done, the Event input_callback waits on
    input_lock,    \* who holds Screen.input_lock: "input", "run" or "free"
    tpc, tick_tmp, \* where tick() is, and the countdown value it loaded
    wpc,           \* where winch() is
    owed,          \* a batch has finished executing and run_gui has not begun
                   \* a pass or its termination since
    unserved,      \* the flags some thread has set to True since the latest
                   \* resize, refresh or redraw that serves them began
    calc           \* the latest call of a pure function: its arguments and result

treeVars == <<screen, last, calc>>
flagVars == <<needs_resize, needs_refresh, needs_redraw>>
runVars  == <<rpc, cmds, subcmds, did>>
guiVars  == <<gpc, passLog, glog, curses_up>>
inVars   == <<ipc, keysLeft, user_queue, sub_edit, input_done, input_lock>>
envVars  == <<tpc, tick_tmp, wpc>>
vars == <<screen, last, needs_resize, needs_refresh, needs_redraw, alive, do_gui,
          sync_timer, sync_lock, rpc, cmds, subcmds, did, gpc, passLog, glog,
          curses_up, ipc, keysLeft, user_queue, sub_edit, input_done, input_lock,
          tpc, tick_tmp, wpc, owed, unserved, calc>>

NoCalc == [op |-> "none"]

NoOp == [op |-> "init", idx |-> 0, raised |-> FALSE, prev |-> None, target |-> None]

\* Screen.__init__: types = [InputBox, TagList], no floats, then subwindows().
InitScreen(ia, ta) ==
    Subwindows([windows   |-> <<Region(1, "InputBox", FALSE, ia),
                                Region(2, "TagList", FALSE, ta)>>,
                floats    |-> <<>>,
                focused   |-> None,
                input_box |-> None]).scr

ThreadInit(keys) ==
    /\ last = NoOp
    /\ calc = NoCalc
    /\ needs_resize = FALSE /\ needs_refresh = FALSE /\ needs_redraw = FALSE
    /\ alive = TRUE
    /\ do_gui = FALSE
    /\ sync_timer = SyncTimerInit
    /\ sync_lock = "free"
    /\ rpc = "loop" /\ cmds = <<>> /\ subcmds = <<>> /\ did = <<>>
    /\ gpc = "wait" /\ passLog = <<>> /\ glog = TRUE /\ curses_up = TRUE
    /\ ipc = "poll" /\ keysLeft = keys /\ user_queue = 0
    /\ sub_edit = FALSE /\ input_done = FALSE /\ input_lock = "input"
    /\ tpc = "idle" /\ tick_tmp = 0 /\ wpc = "idle"
    /\ owed = FALSE
    /\ unserved = {}

\* The input box at the bottom and the tag list in the middle row.
Init ==
    /\ screen = InitScreen("bottom", "neutral")
    /\ ThreadInit(MaxKeys)

(* ---------------------- sync_lock (locks.py) ------------------------ *)

\* acquire_write blocks until nobody holds the lock.
CanAcquireWrite == sync_lock = "free"

(* ------------------- the command thread: gui.run -------------------- *)

\* The piece being issued: of the prompt's string if there is one.
Cur == IF subcmds # <<>> THEN Head(subcmds) ELSE Head(cmds)

\* Where the for loops go next, given what is left to issue.
NextRpc(cs, ss) ==
    IF ss # <<>> THEN "acquire"
    ELSE IF cs = <<>> THEN "release_gui"
    ELSE IF Head(cs).op = "command" THEN "input_callback"
    ELSE "acquire"

\* while self.alive:
RunLoopForever ==
    /\ rpc = "loop"
    /\ rpc' = "get_key"
    /\ UNCHANGED <<treeVars, flagVars, alive, do_gui, sync_timer, sync_lock, cmds,
                   subcmds, did, guiVars, inVars, envVars, owed, unserved>>

RunLoop ==
    /\ rpc = "loop"
    /\ rpc' = IF alive THEN "get_key" ELSE "done"
    /\ UNCHANGED <<treeVars, flagVars, alive, do_gui, sync_timer, sync_lock, cmds,
                   subcmds, did, guiVars, inVars, envVars, owed, unserved>>

\* r = get_key(); the key resolves to no command (continue) or to a batch.
RunGetKey ==
    /\ rpc = "get_key"
    /\ user_queue > 0
    /\ user_queue' = user_queue - 1
    /\ \/ /\ cmds' = <<>>
          /\ rpc' = "loop"
       \/ \E b \in Batches :
            /\ cmds' = b
            /\ rpc' = NextRpc(b, <<>>)
    /\ UNCHANGED <<treeVars, flagVars, alive, do_gui, sync_timer, sync_lock, subcmds,
                   did, guiVars, ipc, keysLeft, sub_edit, input_done, input_lock, envVars,
                   owed, unserved>>

\* r = get_key(); the key is bound to a Region's command that pauses the
\* interface.
RunGetKeyPause ==
    /\ rpc = "get_key"
    /\ user_queue > 0
    /\ user_queue' = user_queue - 1
    /\ cmds' = <<Cmd("pause")>>
    /\ rpc' = NextRpc(<<Cmd("pause")>>, <<>>)
    /\ UNCHANGED <<treeVars, flagVars, alive, do_gui, sync_timer, sync_lock, subcmds,
                   did, guiVars, ipc, keysLeft, sub_edit, input_done, input_lock, envVars,
                   owed, unserved>>

\* input_callback(':') up to its wait: input_box.edit raises on None.
RunInputCallback ==
    /\ rpc = "input_callback"
    /\ input_done' = FALSE
    /\ IF screen.input_box = None
       THEN rpc' = "dead" /\ UNCHANGED sub_edit
       ELSE rpc' = "input_wait" /\ sub_edit' = TRUE
    /\ UNCHANGED <<treeVars, flagVars, alive, do_gui, sync_timer, sync_lock, cmds,
                   subcmds, did, guiVars, ipc, keysLeft, user_queue, input_lock, envVars,
                   owed, unserved>>

\* input_callback goes on without waiting for input_done.
RunInputNoWait ==
    /\ rpc = "input_wait"
    /\ \E sb \in SubBatches : subcmds' = sb
    /\ rpc' = "acquire"
    /\ UNCHANGED <<treeVars, flagVars, alive, do_gui, sync_timer, sync_lock, cmds,
                   did, guiVars, inVars, envVars, owed, unserved>>

\* input_done.wait() returns; the result is split into subcmds.
RunInputWait ==
    /\ rpc = "input_wait"
    /\ input_done
    /\ \E sb \in SubBatches : subcmds' = sb
    /\ rpc' = "acquire"
    /\ UNCHANGED <<treeVars, flagVars, alive, do_gui, sync_timer, sync_lock, cmds,
                   did, guiVars, inVars, envVars, owed, unserved>>

\* issue_cmd: sync_lock.acquire_write()
RunAcquireNoLock ==
    /\ rpc = "acquire"
    /\ rpc' = "execute"
    /\ UNCHANGED <<treeVars, flagVars, alive, do_gui, sync_timer, sync_lock, cmds,
                   subcmds, did, guiVars, inVars, envVars, owed, unserved>>

RunAcquire ==
    /\ rpc = "acquire"
    /\ CanAcquireWrite
    /\ sync_lock' = "run"
    /\ rpc' = "execute"
    /\ UNCHANGED <<treeVars, flagVars, alive, do_gui, sync_timer, cmds,
                   subcmds, did, guiVars, inVars, envVars, owed, unserved>>

\* What is left to issue once the current piece is through.
RestSubs == IF subcmds # <<>> THEN Tail(subcmds) ELSE <<>>

RestCmds == IF subcmds # <<>> /\ RestSubs # <<>> THEN cmds ELSE Tail(cmds)

\* The batch has finished executing when the handler of its last piece
\* returns.
BatchDone ==
    owed' = (owed \/ (rpc' = "release_write" /\ NextRpc(RestCmds, RestSubs) = "release_gui"))

\* What a command's handler leaves behind: the screen, whether it raised,
\* and what it did to the screen.
Landed(r, effects) ==
    /\ screen' = r.scr
    /\ did' = IF r.raised THEN <<"layout">> ELSE effects
    /\ rpc' = IF r.raised THEN "dead" ELSE "release_write"

\* cmd_quit
RunQuit ==
    /\ rpc = "execute" /\ Cur.op = "quit"
    /\ alive' = FALSE
    /\ rpc' = "release_write"
    /\ UNCHANGED <<treeVars, flagVars, do_gui, sync_timer, sync_lock, cmds, subcmds,
                   did, guiVars, inVars, envVars, unserved>>
    /\ BatchDone

\* cmd_resize: _resize(): subwindows() then refresh()
RunResizeClearing ==
    /\ rpc = "execute" /\ Cur.op = "resize"
    /\ Landed(Resize(screen), <<"layout", "refresh">>)
    /\ needs_resize' = FALSE /\ needs_refresh' = FALSE /\ needs_redraw' = FALSE
    /\ UNCHANGED <<last, calc, alive, do_gui, sync_timer, sync_lock, cmds, subcmds,
                   guiVars, inVars, envVars, unserved>>
    /\ BatchDone

RunResize ==
    /\ rpc = "execute" /\ Cur.op = "resize"
    /\ Landed(Resize(screen), <<"layout", "refresh">>)
    /\ UNCHANGED <<last, calc, flagVars, alive, do_gui, sync_timer, sync_lock, cmds, subcmds,
                   guiVars, inVars, envVars, unserved>>
    /\ BatchDone

\* cmd_focus: _focus(idx)
RunFocus ==
    /\ rpc = "execute" /\ Cur.op = "focus"
    /\ screen' = Focus(screen, Cur.idx)
    /\ rpc' = "release_write"
    /\ UNCHANGED <<last, calc, flagVars, alive, do_gui, sync_timer, sync_lock, cmds, subcmds,
                   did, guiVars, inVars, envVars, unserved>>
    /\ BatchDone

\* focus with an argument optint cannot parse: log.error, which an attached
\* GraphicalLog turns into an ErrorBox (added if there is none) and
\* needs_refresh; the command itself does nothing.
RunFocusBad ==
    /\ rpc = "execute" /\ Cur.op = "focus_bad"
    /\ IF ~glog
       THEN /\ rpc' = "release_write"
            /\ UNCHANGED <<screen, did, needs_refresh>>
       ELSE IF "ErrorBox" \in WindowTypes(screen)
       THEN /\ rpc' = "release_write"
            /\ needs_refresh' = TRUE
            /\ UNCHANGED <<screen, did>>
       ELSE /\ CanAdd(screen)
            /\ \E k \in AddKinds :
                 /\ k.cls = "ErrorBox"
                 /\ Landed(AddWindowCallback(screen, k), <<"layout", "refresh">>)
                 /\ needs_refresh' = (~AddWindowCallback(screen, k).raised \/ needs_refresh)
    /\ UNCHANGED <<last, calc, needs_resize, needs_redraw, alive, do_gui, sync_timer,
                   sync_lock, cmds, subcmds, guiVars, inVars, envVars>>
    /\ BatchDone
    /\ unserved' = IF glog /\ rpc' # "dead" THEN unserved \cup {"refresh"} ELSE unserved

\* A Region's command that ends with the Region's die callback.
RunDie ==
    /\ rpc = "execute" /\ Cur.op = "die"
    /\ \E i \in SeqIds(screen.windows \o screen.floats) :
         Landed(DieCallback(screen, i), <<"layout", "refresh">>)
    /\ UNCHANGED <<last, calc, flagVars, alive, do_gui, sync_timer, sync_lock, cmds, subcmds,
                   guiVars, inVars, envVars, unserved>>
    /\ BatchDone

\* A Region's command that hands the terminal to another program: it
\* calls pause_interface_callback, input_lock.acquire(), which blocks while
\* the input thread holds the lock ...
RunPause ==
    /\ rpc = "execute" /\ Cur.op = "pause"
    /\ input_lock = "free"
    /\ input_lock' = "run"
    /\ rpc' = "paused"
    /\ UNCHANGED <<treeVars, flagVars, alive, do_gui, sync_timer, sync_lock, cmds,
                   subcmds, did, guiVars, ipc, keysLeft, user_queue, sub_edit,
                   input_done, envVars, owed, unserved>>

\* ... and, the program over, unpause_interface_callback:
\* input_lock.release(); self._resize()
RunUnpause ==
    /\ rpc = "paused"
    /\ input_lock' = "free"
    /\ Landed(Resize(screen), <<"layout", "refresh">>)
    /\ UNCHANGED <<last, calc, flagVars, alive, do_gui, sync_timer, sync_lock, cmds,
                   subcmds, guiVars, ipc, keysLeft, user_queue, sub_edit, input_done,
                   envVars, unserved>>
    /\ BatchDone

\* A piece no handler matches ("command" issued from the prompt included).
RunNoop ==
    /\ rpc = "execute" /\ Cur.op \in {"noop", "command"}
    /\ rpc' = "release_write"
    /\ UNCHANGED <<treeVars, flagVars, alive, do_gui, sync_timer, sync_lock, cmds,
                   subcmds, did, guiVars, inVars, envVars, unserved>>
    /\ BatchDone

\* issue_cmd: sync_lock.release_write(), and on to the next piece.
RunReleaseWrite ==
    /\ rpc = "release_write"
    /\ sync_lock' = "free"
    /\ did' = <<>>
    /\ subcmds' = RestSubs
    /\ cmds' = RestCmds
    /\ rpc' = NextRpc(RestCmds, RestSubs)
    /\ UNCHANGED <<treeVars, flagVars, alive, do_gui, sync_timer, guiVars, inVars,
                   envVars, owed, unserved>>

\* The batch is finished: self.release_gui()
RunReleaseGuiIfNeeded ==
    /\ rpc = "release_gui"
    /\ do_gui' = (do_gui \/ needs_resize \/ needs_refresh \/ needs_redraw \/ ~alive)
    /\ rpc' = "loop"
    /\ UNCHANGED <<treeVars, flagVars, alive, sync_timer, sync_lock, cmds, subcmds,
                   did, guiVars, inVars, envVars, owed, unserved>>

RunReleaseGui ==
    /\ rpc = "release_gui"
    /\ do_gui' = TRUE
    /\ rpc' = "loop"
    /\ UNCHANGED <<treeVars, flagVars, alive, sync_timer, sync_lock, cmds, subcmds,
                   did, guiVars, inVars, envVars, owed, unserved>>

RunThread ==
    \/ RunLoop \/ RunGetKey \/ RunInputCallback \/ RunInputWait \/ RunAcquire
    \/ RunQuit \/ RunResize \/ RunFocus \/ RunFocusBad \/ RunDie \/ RunNoop
    \/ RunReleaseWrite \/ RunReleaseGui

(* ------------------ the render thread: gui.run_gui ------------------ *)

\* self.do_gui.wait()
GuiWait ==
    /\ gpc = "wait"
    /\ do_gui
    /\ gpc' = "clear"
    /\ UNCHANGED <<treeVars, flagVars, alive, do_gui, sync_timer, sync_lock, runVars,
                   passLog, glog, curses_up, inVars, envVars, owed, unserved>>

\* self.do_gui.clear()
GuiClear ==
    /\ gpc = "clear"
    /\ do_gui' = FALSE
    /\ gpc' = "chk_alive"
    /\ UNCHANGED <<treeVars, flagVars, alive, sync_timer, sync_lock, runVars,
                   passLog, glog, curses_up, inVars, envVars, owed, unserved>>

\* if not self.alive:
GuiChkAlive ==
    /\ gpc = "chk_alive"
    /\ gpc' = IF alive THEN "acquire" ELSE "remove_handler"
    /\ owed' = FALSE
    /\ UNCHANGED <<treeVars, flagVars, alive, do_gui, sync_timer, sync_lock, runVars,
                   passLog, glog, curses_up, inVars, envVars, unserved>>

\* rootlog.removeHandler(self.glog_handler)
GuiRemoveHandler ==
    /\ gpc = "remove_handler"
    /\ glog' = FALSE
    /\ gpc' = "screen_exit"
    /\ UNCHANGED <<treeVars, flagVars, alive, do_gui, sync_timer, sync_lock, runVars,
                   passLog, curses_up, inVars, envVars, owed, unserved>>

\* self.screen.exit(); break
GuiScreenExit ==
    /\ gpc = "screen_exit"
    /\ curses_up' = FALSE
    /\ gpc' = "done"
    /\ UNCHANGED <<treeVars, flagVars, alive, do_gui, sync_timer, sync_lock, runVars,
                   passLog, glog, inVars, envVars, owed, unserved>>

\* sync_lock.acquire_write()
GuiAcquire ==
    /\ gpc = "acquire"
    /\ CanAcquireWrite
    /\ sync_lock' = "gui"
    /\ gpc' = "sync"
    /\ UNCHANGED <<treeVars, flagVars, alive, do_gui, sync_timer, runVars,
                   passLog, glog, curses_up, inVars, envVars, owed, unserved>>

\* if self.sync_timer <= 0: sync every tag; self.sync_timer = 5
GuiSyncAlways ==
    /\ gpc = "sync"
    /\ passLog' = Append(passLog, "sync")
    /\ sync_timer' = SyncTimerReset
    /\ gpc' = "resize"
    /\ UNCHANGED <<treeVars, flagVars, alive, do_gui, sync_lock, runVars,
                   glog, curses_up, inVars, envVars, owed, unserved>>

GuiSync ==
    /\ gpc = "sync"
    /\ IF sync_timer <= 0
       THEN /\ passLog' = Append(passLog, "sync")
            /\ sync_timer' = SyncTimerReset
       ELSE UNCHANGED <<passLog, sync_timer>>
    /\ gpc' = "resize"
    /\ UNCHANGED <<treeVars, flagVars, alive, do_gui, sync_lock, runVars,
                   glog, curses_up, inVars, envVars, owed, unserved>>

\* if needs_resize: self.screen.resize()
GuiResize ==
    /\ gpc = "resize"
    /\ IF needs_resize
       THEN /\ passLog' = Append(passLog, "resize")
            /\ screen' = Resize(screen).scr
            /\ gpc' = IF Resize(screen).raised THEN "dead" ELSE "clr_resize"
       ELSE /\ gpc' = "refresh"
            /\ UNCHANGED <<passLog, screen>>
    /\ UNCHANGED <<last, calc, flagVars, alive, do_gui, sync_timer, sync_lock, runVars,
                   glog, curses_up, inVars, envVars, owed>>
    /\ unserved' = IF needs_resize THEN {} ELSE unserved

\* needs_resize, needs_refresh, needs_redraw = False after the resize
GuiClrResize ==
    /\ gpc = "clr_resize"
    /\ needs_resize' = FALSE /\ needs_refresh' = FALSE /\ needs_redraw' = FALSE
    /\ gpc' = "refresh"
    /\ UNCHANGED <<treeVars, alive, do_gui, sync_timer, sync_lock, runVars,
                   passLog, glog, curses_up, inVars, envVars, owed, unserved>>

\* if needs_refresh: self.screen.refresh()
GuiRefresh ==
    /\ gpc = "refresh"
    /\ IF needs_refresh
       THEN passLog' = Append(passLog, "refresh") /\ gpc' = "clr_refresh"
       ELSE gpc' = "redraw" /\ UNCHANGED passLog
    /\ UNCHANGED <<treeVars, flagVars, alive, do_gui, sync_timer, sync_lock, runVars,
                   glog, curses_up, inVars, envVars, owed>>
    /\ unserved' = IF needs_refresh THEN unserved \ {"refresh"} ELSE unserved

\* needs_refresh = False after the refresh
GuiClrRefresh ==
    /\ gpc = "clr_refresh"
    /\ needs_refresh' = FALSE
    /\ gpc' = "redraw"
    /\ UNCHANGED <<treeVars, needs_resize, needs_redraw, alive, do_gui, sync_timer,
                   sync_lock, runVars, passLog, glog, curses_up, inVars, envVars, owed, unserved>>

\* if needs_redraw: self.screen.redraw()
GuiRedrawElif ==
    /\ gpc = "redraw"
    /\ IF needs_redraw /\ "refresh" \notin { passLog[i] : i \in 1..Len(passLog) }
       THEN passLog' = Append(passLog, "redraw") /\ gpc' = "clr_redraw"
       ELSE gpc' = "release" /\ UNCHANGED passLog
    /\ UNCHANGED <<treeVars, flagVars, alive, do_gui, sync_timer, sync_lock, runVars,
                   glog, curses_up, inVars, envVars, owed>>
    /\ unserved' = IF passLog' # passLog THEN unserved \ {"redraw"} ELSE unserved

GuiRedraw ==
    /\ gpc = "redraw"
    /\ IF needs_redraw
       THEN passLog' = Append(passLog, "redraw") /\ gpc' = "clr_redraw"
       ELSE gpc' = "release" /\ UNCHANGED passLog
    /\ UNCHANGED <<treeVars, flagVars, alive, do_gui, sync_timer, sync_lock, runVars,
                   glog, curses_up, inVars, envVars, owed>>
    /\ unserved' = IF needs_redraw THEN unserved \ {"redraw"} ELSE unserved

\* needs_redraw = False after the redraw
GuiClrRedraw ==
    /\ gpc = "clr_redraw"
    /\ needs_redraw' = FALSE
    /\ gpc' = "release"
    /\ UNCHANGED <<treeVars, needs_resize, needs_refresh, alive, do_gui, sync_timer,
                   sync_lock, runVars, passLog, glog, curses_up, inVars, envVars, owed, unserved>>

\* sync_lock.release_write(), and back to the wait
GuiRelease ==
    /\ gpc = "release"
    /\ sync_lock' = "free"
    /\ passLog' = <<>>
    /\ gpc' = "wait"
    /\ UNCHANGED <<treeVars, flagVars, alive, do_gui, sync_timer, runVars,
                   glog, curses_up, inVars, envVars, owed, unserved>>

\* A due step of the pass raises (tag.sync, screen.resize, screen.refresh
\* or screen.redraw): run_gui has no try, the exception leaves the while
\* loop and the thread ends where it is.
GuiStepRaises ==
    /\ \/ gpc = "sync" /\ sync_timer <= 0 /\ passLog' = Append(passLog, "sync")
          /\ UNCHANGED unserved
       \/ gpc = "resize" /\ needs_resize /\ passLog' = Append(passLog, "resize")
          /\ unserved' = {}
       \/ gpc = "refresh" /\ needs_refresh /\ passLog' = Append(passLog, "refresh")
          /\ unserved' = unserved \ {"refresh"}
       \/ gpc = "redraw" /\ needs_redraw /\ passLog' = Append(passLog, "redraw")
          /\ unserved' = unserved \ {"redraw"}
    /\ gpc' = "dead"
    /\ UNCHANGED <<treeVars, flagVars, alive, do_gui, sync_timer, sync_lock, runVars,
                   glog, curses_up, inVars, envVars, owed>>

GuiThread ==
    \/ GuiWait \/ GuiClear \/ GuiChkAlive \/ GuiRemoveHandler \/ GuiScreenExit
    \/ GuiAcquire \/ GuiSync \/ GuiResize \/ GuiClrResize \/ GuiRefresh
    \/ GuiClrRefresh \/ GuiRedraw \/ GuiClrRedraw \/ GuiRelease

(* ------------------ the input thread: Screen.input_thread ----------- *)

\* r = getch() returns a key; input_lock is held since the thread began.
InputGetch ==
    /\ ipc = "poll" /\ input_lock = "input"
    /\ keysLeft > 0
    /\ keysLeft' = keysLeft - 1
    /\ ipc' = "got"
    /\ UNCHANGED <<treeVars, flagVars, alive, do_gui, sync_timer, sync_lock, runVars,
                   guiVars, user_queue, sub_edit, input_done, input_lock, envVars,
                   owed, unserved>>

\* r == -1: input_lock.release(); time.sleep(0.01)
InputSleep ==
    /\ ipc = "poll" /\ input_lock = "input"
    /\ input_lock' = "free"
    /\ ipc' = "sleep"
    /\ UNCHANGED <<treeVars, flagVars, alive, do_gui, sync_timer, sync_lock, runVars,
                   guiVars, keysLeft, user_queue, sub_edit, input_done, envVars, owed, unserved>>

\* input_lock.acquire(); continue
InputWakeNoLock ==
    /\ ipc = "sleep"
    /\ ipc' = "poll"
    /\ input_lock' = IF input_lock = "free" THEN "input" ELSE input_lock
    /\ UNCHANGED <<treeVars, flagVars, alive, do_gui, sync_timer, sync_lock, runVars,
                   guiVars, keysLeft, user_queue, sub_edit, input_done, envVars, owed, unserved>>

InputWake ==
    /\ ipc = "sleep" /\ input_lock = "free"
    /\ input_lock' = "input"
    /\ ipc' = "poll"
    /\ UNCHANGED <<treeVars, flagVars, alive, do_gui, sync_timer, sync_lock, runVars,
                   guiVars, keysLeft, user_queue, sub_edit, input_done, envVars, owed, unserved>>

\* user_queue.put(("KEY", r)) whatever sub_edit is
InputKeyAlways ==
    /\ ipc = "got"
    /\ user_queue' = user_queue + 1
    /\ ipc' = "poll"
    /\ UNCHANGED <<treeVars, flagVars, alive, do_gui, sync_timer, sync_lock, runVars,
                   guiVars, keysLeft, sub_edit, input_done, input_lock, envVars, owed, unserved>>

\* if self.sub_edit is false: user_queue.put(("KEY", r))
InputKey ==
    /\ ipc = "got" /\ ~sub_edit
    /\ user_queue' = user_queue + 1
    /\ ipc' = "poll"
    /\ UNCHANGED <<treeVars, flagVars, alive, do_gui, sync_timer, sync_lock, runVars,
                   guiVars, keysLeft, sub_edit, input_done, input_lock, envVars, owed, unserved>>

\* if self.sub_edit: rc = input_box.addkey(r); the box wants more keys
\* (rc = 1), or it is done: sub_edit = False; input_done.set()
InputSubEdit ==
    /\ ipc = "got" /\ sub_edit
    /\ \/ ipc' = "poll" /\ UNCHANGED <<sub_edit, input_done>>
       \/ /\ sub_edit' = FALSE
          /\ input_done' = TRUE
          /\ ipc' = "set_redraw"
    /\ UNCHANGED <<treeVars, flagVars, alive, do_gui, sync_timer, sync_lock, runVars,
                   guiVars, keysLeft, user_queue, input_lock, envVars, owed, unserved>>

\* set_var("needs_redraw", True) after the sub-edit is done; continue
InputSetRedraw ==
    /\ ipc = "set_redraw"
    /\ needs_redraw' = TRUE
    /\ ipc' = "poll"
    /\ UNCHANGED <<treeVars, needs_resize, needs_refresh, alive, do_gui, sync_timer,
                   sync_lock, runVars, guiVars, keysLeft, user_queue, sub_edit,
                   input_done, input_lock, envVars, owed>>
    /\ unserved' = unserved \cup {"redraw"}

InputThread ==
    InputGetch \/ InputSleep \/ InputWake \/ InputKey \/ InputSubEdit \/ InputSetRedraw

(* --------------------------- tick and winch ------------------------- *)

\* tick(): self.sync_timer -= 1 loads ...
TickLoad ==
    /\ tpc = "idle"
    /\ sync_timer > -TimerFloor
    /\ tick_tmp' = sync_timer
    /\ tpc' = "store"
    /\ UNCHANGED <<treeVars, flagVars, alive, do_gui, sync_timer, sync_lock, runVars,
                   guiVars, inVars, wpc, owed, unserved>>

\* ... and stores
TickStore ==
    /\ tpc = "store"
    /\ sync_timer' = tick_tmp - 1
    /\ tick_tmp' = 0
    /\ tpc' = "check"
    /\ UNCHANGED <<treeVars, flagVars, alive, do_gui, sync_lock, runVars,
                   guiVars, inVars, wpc, owed, unserved>>

\* if self.sync_timer <= 0: self.release_gui()
TickCheck ==
    /\ tpc = "check"
    /\ do_gui' = (do_gui \/ sync_timer <= 0)
    /\ tpc' = "idle"
    /\ UNCHANGED <<treeVars, flagVars, alive, sync_timer, sync_lock, runVars,
                   guiVars, inVars, tick_tmp, wpc, owed, unserved>>

Tick == TickLoad \/ TickStore \/ TickCheck

\* winch(): set_var("needs_resize", True)
WinchSet ==
    /\ wpc = "idle"
    /\ needs_resize' = TRUE
    /\ wpc' = "release"
    /\ UNCHANGED <<treeVars, needs_refresh, needs_redraw, alive, do_gui, sync_timer,
                   sync_lock, runVars, guiVars, inVars, tpc, tick_tmp, owed>>
    /\ unserved' = unserved \cup {"resize"}

\* winch(): self.release_gui()
WinchRelease ==
    /\ wpc = "release"
    /\ do_gui' = TRUE
    /\ wpc' = "idle"
    /\ UNCHANGED <<treeVars, flagVars, alive, sync_timer, sync_lock, runVars,
                   guiVars, inVars, tpc, tick_tmp, owed, unserved>>

(* -------------------------- specifications -------------------------- *)

Next ==
    \/ RunLoop \/ RunGetKey \/ RunInputCallback \/ RunInputWait \/ RunAcquire
    \/ RunQuit \/ RunResize \/ RunFocus \/ RunFocusBad \/ RunDie \/ RunNoop
    \/ RunReleaseWrite \/ RunReleaseGui
    \/ GuiWait \/ GuiClear \/ GuiChkAlive \/ GuiRemoveHandler \/ GuiScreenExit
    \/ GuiAcquire \/ GuiSync \/ GuiResize \/ GuiClrResize \/ GuiRefresh
    \/ GuiClrRefresh \/ GuiRedraw \/ GuiClrRedraw \/ GuiRelease
    \/ InputGetch \/ InputSleep \/ InputWake \/ InputKey \/ InputSubEdit
    \/ InputSetRedraw
    \/ TickLoad \/ TickStore \/ TickCheck
    \/ WinchSet \/ WinchRelease

Spec == Init /\ [][Next]_vars

\* The same with a key bound to a command that pauses the interface.
PauseNext == Next \/ RunGetKeyPause \/ RunPause \/ RunUnpause

PauseSpec == Init /\ [][PauseNext]_vars

\* The threads keep running: each thread that can take a step eventually
\* does; the tick is periodic; a winch handler that has set the flag goes
\* on to its release.  The user is not obliged to type.
FairInit ==
    /\ screen = InitScreen("bottom", "neutral")
    /\ ThreadInit(FairKeys)

FairSpec ==
    /\ FairInit
    /\ [][Next]_vars
    /\ WF_vars(RunThread)
    /\ WF_vars(GuiThread)
    /\ WF_vars(InputThread)
    /\ WF_vars(Tick)
    /\ WF_vars(WinchRelease)

\* The threads, with render steps that may fail.
FaultNext == Next \/ GuiStepRaises

FaultSpec == Init /\ [][FaultNext]_vars

\* GraphicalLog.emit runs in whichever thread logs the record: the handler
\* is on the root logger.  Here a thread other than run() and run_gui()
\* logs an error record: _emit adds an ErrorBox if there is none, and sets
\* needs_refresh unless add_window_callback raised.
LogEmit ==
    /\ glog
    /\ IF "ErrorBox" \in WindowTypes(screen)
       THEN /\ needs_refresh' = TRUE
            /\ unserved' = unserved \cup {"refresh"}
            /\ UNCHANGED screen
       ELSE /\ CanAdd(screen)
            /\ \E k \in AddKinds :
                 /\ k.cls = "ErrorBox"
                 /\ screen' = AddWindowCallback(screen, k).scr
                 /\ needs_refresh' = (~AddWindowCallback(screen, k).raised \/ needs_refresh)
                 /\ unserved' = IF AddWindowCallback(screen, k).raised THEN unserved
                                ELSE unserved \cup {"refresh"}
    /\ UNCHANGED <<last, calc, needs_resize, needs_redraw, alive, do_gui, sync_timer,
                   sync_lock, runVars, guiVars, inVars, envVars, owed>>

\* The threads with the user typing FairKeys keys: with one key a prompt
\* never gets its input, so the steps that follow input_callback's wait
\* (the pieces entered at the prompt, and the redraw the input thread asks
\* for when the input is over) never happen and are left out.
OneKeyNext ==
    \/ RunLoop \/ RunGetKey \/ RunGetKeyPause \/ RunInputCallback \/ RunAcquire
    \/ RunQuit \/ RunResize \/ RunDie \/ RunPause \/ RunUnpause
    \/ RunReleaseWrite \/ RunReleaseGui
    \/ GuiWait \/ GuiClear \/ GuiChkAlive \/ GuiRemoveHandler \/ GuiScreenExit
    \/ GuiAcquire \/ GuiSync \/ GuiResize \/ GuiClrResize \/ GuiRefresh
    \/ GuiClrRefresh \/ GuiRedraw \/ GuiRelease
    \/ InputGetch \/ InputSleep \/ InputWake \/ InputKey
    \/ Tick
    \/ WinchSet \/ WinchRelease

LogNext == OneKeyNext \/ LogEmit

LogSpec == FairInit /\ [][LogNext]_vars

(* ----------------------- the window tree alone ---------------------- *)
\* The Screen's operations applied one after another, each from any state
\* the Screen can be in, with the window options the config may give.

TreeInit ==
    /\ \E ia \in TiledAligns, ta \in TiledAligns :
         /\ ~SubwRaises(<<Region(1, "InputBox", FALSE, ia), Region(2, "TagList", FALSE, ta)>>)
         /\ screen = InitScreen(ia, ta)
    /\ ThreadInit(0)

Applied(r, o, i, t) ==
    /\ screen' = r.scr
    /\ last' = [op |-> o, idx |-> i, raised |-> r.raised, prev |-> screen.focused,
                target |-> t]
    /\ UNCHANGED <<calc, flagVars, alive, do_gui, sync_timer, sync_lock, runVars, guiVars,
                   inVars, envVars, owed, unserved>>

TAdd ==
    /\ CanAdd(screen)
    /\ \E k \in AddKinds : Applied(AddWindowCallback(screen, k), "add", 0, FreshId(screen))

TDie ==
    \E i \in SeqIds(screen.windows \o screen.floats) :
        Applied(DieCallback(screen, i), "die", 0, i)

TFocus ==
    \E idx \in -(MaxRegions + 1)..(MaxRegions + 1) :
        Applied([scr |-> Focus(screen, idx), raised |-> FALSE], "focus", idx, None)

TResize == Applied(Resize(screen), "resize", 0, None)

TreeNext == TAdd \/ TDie \/ TFocus \/ TResize

TreeSpec == TreeInit /\ [][TreeNext]_vars

(* ------------------------ the geometry alone ------------------------ *)
\* One call of _subw or of subwindows(), on a layout, a rectangle or a
\* Screen drawn from bounded sets.

\* Most units in one list.
MaxUnits == 2
\* A request no extent below reaches ("as much as there is").
BigReq == 100

SeqsUpTo(S, n) == UNION { [1..k -> S] : k \in 0..n }

GeomLeaves == { Leaf(None, m, m, r, r) : m \in {0, 2}, r \in {1, BigReq} }
GeomUnits == GeomLeaves \cup { Nested(ks) : ks \in SeqsUpTo(GeomLeaves, MaxUnits) }
GeomLayouts == SeqsUpTo(GeomUnits, MaxUnits)
GeomExtents == {5, 10}

GeomWindows ==
    { GRegion(None, c, a, m, m, r, r) :
          c \in {"InputBox", "TagList"}, a \in {"top", "neutral"},
          m \in {0, 2}, r \in {1, BigReq} }
GeomFloats ==
    { GRegion(None, "ErrorBox", a, m[1], m[2], r, r) :
          a \in {"top-left", "top-right", "bottom-left", "bottom-right"},
          m \in {<<0, 0>>, <<5, 20>>}, r \in {3, BigReq} }
GeomDims == { <<24, 80>>, <<10, 10>> }

Numbered(q, base) == [i \in 1..Len(q) |-> [q[i] EXCEPT !.id = base + i]]

GeomScreens ==
    { [layout |-> l, height |-> d[1], width |-> d[2],
       windows |-> Numbered(ws, 0), floats |-> Numbered(fs, Len(ws))] :
          l \in {"default", "hstack", "vstack"}, d \in GeomDims,
          ws \in SeqsUpTo(GeomWindows, MaxUnits), fs \in SeqsUpTo(GeomFloats, 1) }

GeomInit ==
    /\ screen = InitScreen("bottom", "neutral")
    /\ ThreadInit(0)

GeomKeep ==
    UNCHANGED <<screen, last, flagVars, alive, do_gui, sync_timer, sync_lock, runVars,
                guiVars, inVars, envVars, owed, unserved>>

\* One call of _subw.
GSubw ==
    /\ calc = NoCalc
    /\ \E layout \in GeomLayouts, height \in GeomExtents, width \in GeomExtents,
          orientation \in {"horizontal", "vertical"} :
         calc' = [op |-> "subw", layout |-> layout, height |-> height,
                  width |-> width, orientation |-> orientation,
                  out |-> Subw(layout, 0, 0, height, width, orientation)]
    /\ GeomKeep

\* One call of subwindows().
GSubwindows ==
    /\ calc = NoCalc
    /\ \E scr \in GeomScreens :
         calc' = [op |-> "subwindows", scr |-> scr, out |-> SubwindowsGeom(scr)]
    /\ GeomKeep

GeomNext == GSubw \/ GSubwindows

GeomSpec == GeomInit /\ [][GeomNext]_vars

(* ----------------------- key resolution alone ----------------------- *)
\* One resolution of a key by run(), or one call of Screen.key or
\* Screen.command, on handlers whose bindings are drawn from bounded sets.

\* Most Regions in the focus list.
MaxChain == 2

KeySet == {"a", "b"}

\* A handler: its name and the keys (the commands) it has a binding for.
Handler(n, b) == [name |-> n, binds |-> b]

\* CommandHandler.key / CommandHandler.command of handler h: a hit if h has
\* a binding.
Hit(h, k) == k \in h.binds

NoHit(asked) == [hit |-> FALSE, by |-> <<"", 0>>, asked |-> asked]

\* for win in f: cmd = win.key(r); if cmd: break
RECURSIVE FirstHit(_, _, _)
FirstHit(f, k, asked) ==
    IF f = <<>> THEN NoHit(asked)
    ELSE IF Hit(Head(f), k)
         THEN [hit |-> TRUE, by |-> Head(f).name, asked |-> Append(asked, Head(f).name)]
         ELSE FirstHit(Tail(f), k, Append(asked, Head(f).name))

\* f = [self] + get_focus_list(), tried in the order of the list.
ResolveKeyInOrder(gui, chain, k) == FirstHit(<<gui>> \o chain, k, <<>>)

\* f = [self] + get_focus_list(); for win in reversed(f): ...
ResolveKey(gui, chain, k) == FirstHit(Reverse(<<gui>> \o chain), k, <<>>)

\* Screen.key and Screen.command: the Screen's own handler, then the
\* focused Region if there is one (focused = <<>> for None).
ScreenKey(scr, focused, k) ==
    IF Hit(scr, k) THEN [hit |-> TRUE, by |-> scr.name, asked |-> <<scr.name>>]
    ELSE FirstHit(focused, k, <<scr.name>>)

KeyBinds == SUBSET KeySet
KeyChains ==
    UNION { { [i \in 1..n |-> Handler(<<"win", i>>, b[i])] : b \in [1..n -> KeyBinds] } :
              n \in 0..MaxChain }

\* One key resolved by run().
KResolve ==
    /\ calc = NoCalc
    /\ \E g \in KeyBinds, chain \in KeyChains, k \in KeySet :
         calc' = [op |-> "key", f |-> <<Handler(<<"gui", 0>>, g)>> \o chain, k |-> k,
                  out |-> ResolveKey(Handler(<<"gui", 0>>, g), chain, k)]
    /\ GeomKeep

\* One call of Screen.key or Screen.command.
KScreen ==
    /\ calc = NoCalc
    /\ \E sb \in KeyBinds, focused \in { c \in KeyChains : Len(c) <= 1 }, k \in KeySet,
          o \in {"screen_key", "screen_command"} :
         calc' = [op |-> o, f |-> <<Handler(<<"screen", 0>>, sb)>> \o focused, k |-> k,
                  out |-> ScreenKey(Handler(<<"screen", 0>>, sb), focused, k)]
    /\ GeomKeep

KeyNext == KResolve \/ KScreen

KeySpec == GeomInit /\ [][KeyNext]_vars

(* ------------------------------ claims ------------------------------ *)

Elems(q) == { q[i] : i \in 1..Len(q) }
AllIds == SeqIds(screen.windows \o screen.floats)

\* run() is inside issue_cmd's section, between acquire_write and release_write.
InCmd == rpc \in {"execute", "release_write"}
\* run_gui() is inside its pass, between acquire_write and release_write.
InPass == gpc \in {"sync", "resize", "clr_resize", "refresh", "clr_refresh",
                   "redraw", "clr_redraw", "release"}

\* C1: a command execution and a render pass are never in progress at the
\* same time; whichever thread is inside its section holds sync_lock for
\* writing.
C1_MutualExclusion ==
    /\ ~(InCmd /\ InPass)
    /\ InCmd => sync_lock = "run"
    /\ InPass => sync_lock = "gui"

\* A command is executing while run_gui is stopped at its acquire_write.
C1_Witness == rpc = "execute" /\ gpc = "acquire" /\ sync_lock = "run"

Rank(st) ==
    CASE st = "sync" -> 1 [] st = "resize" -> 2 [] st = "refresh" -> 3
      [] st = "redraw" -> 4

\* The step the pass has just performed, if this step performed one.
Performed(st) == passLog' = Append(passLog, st)

\* C2: the steps of one render pass run in the order sync, resize, refresh,
\* redraw; sync runs only with the countdown at or below zero and resets it,
\* resize only with needs_resize set, refresh only with needs_refresh set,
\* redraw only with needs_redraw set.
C2_PassOrder ==
    /\ [](\A i, j \in 1..Len(passLog) : i < j => Rank(passLog[i]) < Rank(passLog[j]))
    /\ [][ /\ Performed("sync") => sync_timer <= 0 /\ sync_timer' = SyncTimerReset
           /\ Performed("resize") => needs_resize
           /\ Performed("refresh") => needs_refresh
           /\ Performed("redraw") => needs_redraw ]_vars

\* A pass that has synced, refreshed and redrawn.
C2_Witness == passLog = <<"sync", "refresh", "redraw">>

\* C3 as claimed: one render pass performs at most one of resize, refresh
\* and redraw.
C3_AtMostOneOfThree ==
    Cardinality({ i \in 1..Len(passLog) : passLog[i] \in {"resize", "refresh", "redraw"} }) <= 1

\* C3 amended: a pass performs each step at most once; the resize is
\* followed by clearing all three flags; the refresh is performed exactly
\* when needs_refresh is set at its test and the redraw exactly when
\* needs_redraw is set at its test, whether or not the refresh ran.
C3_IndependentSteps ==
    /\ [](\A i, j \in 1..Len(passLog) : passLog[i] = passLog[j] => i = j)
    /\ [][ /\ (gpc = "clr_resize" /\ gpc' # gpc) =>
                 ~needs_resize' /\ ~needs_refresh' /\ ~needs_redraw'
           /\ (gpc = "refresh" /\ gpc' # gpc) => (Performed("refresh") <=> needs_refresh)
           /\ (gpc = "redraw" /\ gpc' # gpc) => (Performed("redraw") <=> needs_redraw) ]_vars

\* A pass that has performed the refresh and the redraw both.
C3_Witness == "refresh" \in Elems(passLog) /\ "redraw" \in Elems(passLog)

\* This step is the execution of the resize command.
ResizeCmdStep == rpc = "execute" /\ Cur.op = "resize" /\ rpc' # rpc

\* C4 as claimed: the resize command leaves needs_resize, needs_refresh and
\* needs_redraw all false.
C4_ResizeCmdClearsFlags ==
    [][ ResizeCmdStep => ~needs_resize' /\ ~needs_refresh' /\ ~needs_redraw' ]_vars

\* C4 amended: the resize command leaves the three flags as they were; it
\* regenerates the layout and, when that completes, refreshes the screen.
\* A flag goes from set to clear only in a render pass.
C4_ResizeCmdKeepsFlags ==
    [][ /\ ResizeCmdStep =>
             /\ UNCHANGED flagVars
             /\ screen' = Resize(screen).scr
             /\ did' = IF Resize(screen).raised THEN <<"layout">>
                       ELSE <<"layout", "refresh">>
        /\ ( \/ needs_resize /\ ~needs_resize'
             \/ needs_refresh /\ ~needs_refresh'
             \/ needs_redraw /\ ~needs_redraw' ) =>
             gpc \in {"clr_resize", "clr_refresh", "clr_redraw"} ]_vars

\* The resize command has run to its end with needs_resize still set.
C4_Witness ==
    /\ rpc = "release_write" /\ Cur.op = "resize"
    /\ did = <<"layout", "refresh">> /\ needs_resize

\* C5: after every window-tree operation the focus is a Region of the tiled
\* or floating set, or None, and None only when both sets are empty.
C5_FocusInSet ==
    /\ screen.focused \in AllIds \cup {None}
    /\ screen.focused = None => AllIds = {}

\* C6: focus(idx) selects the chain's element at idx for idx in -L..L-1 and
\* leaves the focus as it was for any other idx.
C6_FocusIndex ==
    last.op = "focus" =>
        LET fo == FocusOrder(screen)
            L  == Len(fo)
        IN  IF -L <= last.idx /\ last.idx <= L - 1
            THEN screen.focused = PyIndex(fo, last.idx).id
            ELSE screen.focused = last.prev

\* C7: after an add or a remove the focus is the Region at index 0 of the
\* new focus chain, None if the chain is empty.
C7_FocusFirstAfterChange ==
    last.op \in {"add", "die"} =>
        LET fo == FocusOrder(screen)
        IN  screen.focused = IF fo = <<>> THEN None ELSE fo[1].id

\* run_gui can never go on: it died in its pass, or it waits for a lock
\* whose holder died holding it.
RenderShutOut ==
    \/ gpc = "dead"
    \/ gpc = "acquire" /\ sync_lock = "run" /\ rpc = "dead"

\* C8: once quit has executed, run_gui is woken, tears down and exits; so
\* from no state after quit is run_gui shut out of its teardown.
C8_QuitNeverShutOut == ~alive => ~RenderShutOut

\* The same as a liveness property, for FairSpec.
QuitTerminates == (~alive) ~> (gpc = "done")

\* C9 as claimed: once alive is false no command execution starts.
C9_NoCommandAfterQuit ==
    [][ ~alive => ~(rpc = "acquire" /\ rpc' = "execute") ]_vars

\* C9 amended: once alive is false run() starts no new batch: it takes no
\* key from the queue, and the list of commands to issue only shrinks; when
\* the batch in progress is through, run() leaves its loop.
C9_NoBatchAfterQuit ==
    /\ [](rpc = "get_key" => alive)
    /\ [][ ~alive => /\ user_queue' >= user_queue
                     /\ Len(cmds') <= Len(cmds)
                     /\ (rpc = "loop" /\ rpc' # rpc => rpc' = "done") ]_vars

\* A command of the batch that held quit is executing after quit.
C9_Witness == ~alive /\ rpc = "execute"

\* C10 as claimed: each finished batch is followed by a wake of run_gui (a
\* pass or the termination) that begins after the batch finished; so no
\* finished batch is still owed its wake once run_gui has exited.
C10_BatchThenWake == ~(owed /\ gpc = "done")

\* The same as a liveness property, for FairSpec.
BatchThenWake == owed ~> ~owed

\* C10 amended: every finished batch sets the Release Signal, whatever the
\* flags are, and the signal stays set until run_gui's own clear.
C10_BatchSetsSignal ==
    [][ /\ (rpc = "release_gui" /\ rpc' # rpc) => do_gui'
        /\ (do_gui /\ ~do_gui') => gpc = "clear" ]_vars

\* A batch that changed no flag has finished and the signal is set.
C10_Witness ==
    /\ owed /\ do_gui /\ rpc = "loop" /\ alive
    /\ ~needs_resize /\ ~needs_refresh /\ ~needs_redraw

\* The immediates of a level before its i-th unit.
LeavesBefore(lv, i) == { j \in 1..(i - 1) : lv.layout[j].leaf }

RECURSIVE SumOver(_, _)
SumOver(sz, I) ==
    IF I = {} THEN 0
    ELSE LET j == CHOOSE k \in I : TRUE IN sz[j] + SumOver(sz, I \ {j})

\* The size the claim gives the immediate at i along the axis of its level.
ClaimedLeafSize(lv, i) ==
    LET w     == lv.layout[i]
        cfg   == IF lv.orientation = "horizontal" THEN w.mw ELSE w.mh
        req   == IF lv.orientation = "horizontal" THEN w.rw ELSE w.rh
        used  == SumOver(lv.sizes, LeavesBefore(lv, i))
        share == (lv.extent - used) \div (Len(lv.layout) - Cardinality(LeavesBefore(lv, i)))
    IN  IF cfg = 0 THEN Min2(req, share) ELSE Min3(cfg, req, share)

\* Each immediate of the level has the size the claim gives it.
LeafSizesAsClaimed(lv) ==
    \A i \in 1..Len(lv.layout) : lv.layout[i].leaf => lv.sizes[i] = ClaimedLeafSize(lv, i)

\* C11: at every level the space the children take along the active axis
\* sums to at most the extent, and each immediate's size is min(configured
\* max or unbounded, requested, (extent - used) / units not yet allocated).
C11_SizesWithinExtent ==
    calc.op = "subw" =>
        \A lv \in calc.out.levels :
            /\ SumTo(lv.taken, Len(lv.taken)) <= lv.extent
            /\ LeafSizesAsClaimed(lv)

\* What does hold at every level: the sizes list sums to at most the
\* extent, and the immediates are sized as claimed.
RecordedSizesWithinExtent ==
    calc.op = "subw" =>
        \A lv \in calc.out.levels :
            /\ SumTo(lv.sizes, Len(lv.sizes)) <= lv.extent
            /\ LeafSizesAsClaimed(lv)

\* The rectangles subwindows() gave the tiled Regions of the Screen.
TiledRects == { r \in calc.out.rects : r.id \in SeqIds(calc.scr.windows) }

\* C12: under "hstack" the tiled Regions are in one row (same top), under
\* "vstack" in one column (same left).
C12_StackLayouts ==
    (calc.op = "subwindows" /\ ~calc.out.raised) =>
        /\ calc.scr.layout = "hstack" => \A r1, r2 \in TiledRects : r1.top = r2.top
        /\ calc.scr.layout = "vstack" => \A r1, r2 \in TiledRects : r1.left = r2.left

\* What the code does: "hstack" gives one column, "vstack" one row.
StackLayoutsSwapped ==
    (calc.op = "subwindows" /\ ~calc.out.raised) =>
        /\ calc.scr.layout = "hstack" => \A r1, r2 \in TiledRects : r1.left = r2.left
        /\ calc.scr.layout = "vstack" => \A r1, r2 \in TiledRects : r1.top = r2.top

\* The rectangle the claim gives a float: a function of the float's options
\* and the screen's size alone.
ClaimedFloatRect(f, height, width) ==
    LET h == IF f.mh = 0 THEN Min2(height, f.rh) ELSE Min3(height, f.mh, f.rh)
        w == IF f.mw = 0 THEN Min2(width, f.rw) ELSE Min3(width, f.mw, f.rw)
    IN  [id |-> f.id, height |-> h, width |-> w,
         top  |-> IF StartsWithBottom(f.align) THEN height - h ELSE 0,
         left |-> IF EndsWithRight(f.align) THEN width - w ELSE 0]

\* C13: subwindows() gives each float the rectangle min(screen, configured
\* max or unbounded, requested), placed by its align, whatever the tiled
\* Regions and the other floats are; bottom-right with maxheight 5 and
\* maxwidth 20 on 80 x 24 is top 19, left 60, height 5, width 20.
C13_FloatRects ==
    calc.op = "subwindows" =>
        \A i \in 1..Len(calc.scr.floats) :
            LET f == calc.scr.floats[i]
            IN  /\ ClaimedFloatRect(f, calc.scr.height, calc.scr.width) \in calc.out.rects
                /\ ( /\ f.align = "bottom-right" /\ f.mh = 5 /\ f.mw = 20
                     /\ f.rh >= 5 /\ f.rw >= 20
                     /\ calc.scr.height = 24 /\ calc.scr.width = 80 ) =>
                       [id |-> f.id, top |-> 19, left |-> 60, height |-> 5, width |-> 20]
                           \in calc.out.rects

\* The same for the calls in which the tiled layout does not raise.
FloatRectsWhenLaidOut == (calc.op = "subwindows" /\ ~calc.out.raised) => C13_FloatRects

\* C14: after "command" is issued run() executes nothing until the input
\* thread has reported the end of that prompt's sub-edit; only then is the
\* string split, and its pieces are executed in order, each under
\* sync_lock, before the commands left in the batch.
C14_PromptThenPieces ==
    /\ [](subcmds # <<>> => cmds # <<>> /\ Head(cmds).op = "command")
    /\ [](rpc = "execute" /\ subcmds # <<>> => sync_lock = "run")
    /\ [][ /\ (rpc = "input_callback" /\ rpc' = "input_wait") => ~input_done' /\ sub_edit'
           /\ (~input_done /\ input_done') =>
                 rpc = "input_wait" /\ sub_edit /\ ~sub_edit' /\ ipc' # ipc
           /\ (rpc \in {"input_callback", "input_wait"} /\ rpc' # rpc) =>
                 /\ rpc' \in {"input_wait", "acquire", "dead"}
                 /\ rpc' = "acquire" => rpc = "input_wait" /\ input_done
           /\ (subcmds = <<>> /\ subcmds' # <<>>) => rpc = "input_wait" /\ input_done
           /\ subcmds # <<>> =>
                 /\ subcmds' = subcmds \/ (subcmds' = Tail(subcmds) /\ rpc = "release_write")
                 /\ cmds' = cmds \/ (subcmds' = <<>> /\ cmds' = Tail(cmds))
                 /\ (alive /\ ~alive') => rpc = "execute" /\ Head(subcmds).op = "quit" ]_vars

\* A piece of the prompt's string is executing and the batch has a command
\* left after "command".
C14_Witness == rpc = "execute" /\ subcmds # <<>> /\ Len(cmds) > 1 /\ input_done

\* C15: while sub_edit is set no step puts a key on the queue, and a key the
\* input thread dispatches goes to the input box (the queue is untouched and
\* the thread goes back to read, or the box is done); sub_edit is cleared
\* only by the input thread on a key the box answers with "done", in the
\* same step as input_done is set; the next step of the thread sets
\* needs_redraw; the caller blocked in input_callback is never left with
\* sub-edit over and the signal unset.
C15_SubEditKeys ==
    /\ [](rpc = "input_wait" /\ ~sub_edit => input_done)
    /\ [][ /\ sub_edit => user_queue' <= user_queue
           /\ (ipc = "got" /\ sub_edit /\ ipc' # ipc) =>
                 /\ user_queue' = user_queue
                 /\ \/ ipc' = "poll" /\ sub_edit' /\ input_done' = input_done
                    \/ ipc' = "set_redraw" /\ ~sub_edit' /\ input_done'
           /\ (sub_edit /\ ~sub_edit') =>
                 ipc = "got" /\ ipc' = "set_redraw" /\ input_done' /\ rpc = "input_wait"
           /\ (ipc = "set_redraw" /\ ipc' # ipc) => needs_redraw' /\ ipc' = "poll" ]_vars

\* The input box has just reported the end of the input, with needs_redraw
\* still clear and the caller blocked in input_callback.
C15_Witness ==
    ipc = "set_redraw" /\ ~needs_redraw /\ rpc = "input_wait" /\ input_done /\ ~sub_edit

C17_TreeUnderLock ==
    [][screen' # screen =>
          \/ rpc' # rpc /\ sync_lock = "run"
          \/ gpc' # gpc /\ sync_lock = "gui"]_vars

\* C18: a render pass in which a step has raised goes on, releases sync_lock
\* and returns to the wait: run_gui never ends inside a pass, holding
\* sync_lock.
C18_PassSurvivesFailure == ~(gpc = "dead" /\ sync_lock = "gui")

\* The handlers asked are the first n of the list q, in its order; all but
\* the last asked had no binding; the last asked is the winner if there is
\* a hit, and without a hit every handler of q was asked.
AskedAlong(q, k, out) ==
    LET n == Len(out.asked)
    IN  /\ n <= Len(q)
        /\ \A i \in 1..n : out.asked[i] = q[i].name
        /\ \A i \in 1..(n - 1) : k \notin q[i].binds
        /\ IF out.hit
           THEN n >= 1 /\ k \in q[n].binds /\ out.by = q[n].name
           ELSE n = Len(q) /\ (n >= 1 => k \notin q[n].binds)

\* Screen.key / Screen.command: the Screen's own handler first, the focused
\* Region asked only when the Screen has no binding.
ScreenOwnFirst ==
    calc.op \in {"screen_key", "screen_command"} => AskedAlong(calc.f, calc.k, calc.out)

\* C19: a key is resolved by asking the GUI itself first, then the Regions
\* of the focus list from its first to its last; the first hit wins and no
\* later handler is asked; within the Screen its own handler comes first.
C19_GuiFirst ==
    /\ calc.op = "key" => AskedAlong(calc.f, calc.k, calc.out)
    /\ ScreenOwnFirst

\* C19 as the code has it: the list [GUI] + focus list is tried from its
\* end: the last Region of the focus list first, the GUI itself last.
C19_GuiLast ==
    /\ calc.op = "key" => AskedAlong(Reverse(calc.f), calc.k, calc.out)
    /\ ScreenOwnFirst

\* The GUI and a Region both have a binding for the key: the Region wins
\* and the GUI is never asked.
C19_Witness ==
    /\ calc.op = "key" /\ Len(calc.f) = 3
    /\ calc.k \in calc.f[1].binds /\ calc.k \in calc.f[2].binds
    /\ calc.k \notin calc.f[3].binds
    /\ calc.out.hit /\ calc.out.by = calc.f[2].name

\* C20: after add_window_callback has returned, the Region it created holds
\* the focus, tiled or floating, whatever Regions there were before.
C20_NewRegionFocused ==
    (last.op = "add" /\ ~last.raised) => screen.focused = last.target

\* C21: subwindows() under the default layout returns without raising for
\* every set of tiled Regions: the empty set, and the sets in which no
\* Region is aligned left, neutral or right, included.
C21_DefaultLayoutNeverRaises ==
    (calc.op = "subwindows" /\ calc.scr.layout = "default") => ~calc.out.raised

\* The same whenever some tiled Region is aligned left, neutral or right.
DefaultLayoutWithMiddleRow ==
    ( /\ calc.op = "subwindows" /\ calc.scr.layout = "default"
      /\ \E i \in 1..Len(calc.scr.windows) :
            calc.scr.windows[i].align \in {"left", "neutral", "right"} )
        => ~calc.out.raised

\* C22: sync_lock is released after every command, a command whose handler
\* raises included: run() never ends holding sync_lock, which would leave
\* run_gui waiting at acquire_write for ever.
C22_LockReleasedAfterCommand == ~(rpc = "dead" /\ sync_lock = "run")

\* C23: no render request is lost: a flag set to True since the latest
\* resize, refresh or redraw serving it began is still up, so that the next
\* pass of run_gui serves it (a resize serves all three flags, a refresh
\* needs_refresh, a redraw needs_redraw).
C23_NoRequestLost ==
    /\ "resize" \in unserved => needs_resize
    /\ "refresh" \in unserved => needs_refresh
    /\ "redraw" \in unserved => needs_redraw

=============================================================================
